---- MODULE Spec2Model ----
(***************************************************************************)
(* Model of pg-tracing-otel-forwarder: main() sets up a TracerProvider     *)
(* with a FixedIdGenerator, connects to PostgreSQL, and fetchSpans() turns *)
(* every row of pg_tracing_consume_spans into one started-and-ended span.  *)
(*                                                                         *)
(* 64-bit quantities are kept at full width.  A uint64/int64 is a tuple of *)
(* four 16-bit limbs, most significant first (two's complement for the     *)
(* signed types); a time instant is a five-limb (80-bit) two's-complement  *)
(* count of nanoseconds, wide enough that instant + duration never wraps.  *)
(***************************************************************************)
EXTENDS Integers, Sequences, FiniteSets, TLC

VARIABLES
    pc,             \* position of main()/fetchSpans()
    ctxDone,        \* the signal.NotifyContext context has been cancelled
    pending,        \* rows of the result set not yet delivered by rows.Next()
    consumed,       \* records scanned so far, in order
    cur,            \* the loop body's local variables holding the scanned row
    built,          \* the loop body's derived locals (attributes, bytes, times)
    ctxPsc,         \* span context carried by the local variable ctx
    fixedSpanID,    \* FixedIdGenerator.FixedSpanID
    fixedTraceID,   \* FixedIdGenerator.FixedTraceID
    spans,          \* spans created by the SDK, in creation order
    calls,          \* tracer.Start / span.End calls issued, in order
    exported,       \* number of ended spans the exporter has transmitted
    failure,        \* which step failed, "none" if none did
    exitStatus,     \* process exit status, -1 while running
    doneLogged,     \* "Done!" has been logged
    shutdownCalled  \* the deferred shutdown(ctx) has been invoked

vars == <<pc, ctxDone, pending, consumed, cur, built, ctxPsc, fixedSpanID,
          fixedTraceID, spans, calls, exported, failure, exitStatus,
          doneLogged, shutdownCalled>>

(* ---------------------------- bounds ---------------------------------- *)
\* Largest number of rows the modelled query returns.
MaxRows == 3

(* ------------------------ machine integers ---------------------------- *)
LimbBase == 256 * 256
ByteBase == 16 * 16
LimbMax  == LimbBase - 1
SignLimb == LimbBase \div 2

\* uint64 literals used as inputs
U64(a, b, c, d) == <<a, b, c, d>>
U64Zero == U64(0, 0, 0, 0)
U64Max  == U64(LimbMax, LimbMax, LimbMax, LimbMax)
U64Top  == U64(SignLimb, 0, 0, 0)            \* 2^63
U64Small(n) == U64(0, 0, 0, n)

\* uint64(x) for x of type int64: the bit pattern is kept (Go conversion
\* between integer types of equal size), so the limbs are unchanged; what
\* changes is the reading of the top bit.
ToUint64(x) == [i \in 1..4 |-> x[i] % LimbBase]

\* make([]byte, n)
MakeBytes(n) == [i \in 1..n |-> 0]

\* binary.BigEndian.PutUint64(b, v): writes b[0..7], leaves the rest of b.
\* (1-based here: positions 1..8.)
PutUint64(b, v) ==
    [i \in 1..Len(b) |->
        IF i > 8 THEN b[i]
        ELSE IF i % 2 = 1 THEN v[(i + 1) \div 2] \div ByteBase
                          ELSE v[i \div 2] % ByteBase]

(* ------------------------------ time ---------------------------------- *)
\* carry out of limb position i when adding two 5-limb numbers
RECURSIVE CarryOut(_, _, _)
CarryOut(a, b, i) ==
    IF i > 5 THEN 0 ELSE (a[i] + b[i] + CarryOut(a, b, i + 1)) \div LimbBase

AddWide(a, b) ==
    [i \in 1..5 |-> (a[i] + b[i] + CarryOut(a, b, i + 1)) % LimbBase]

SignFill(top) == IF top >= SignLimb THEN LimbMax ELSE 0

\* time.Duration(x) for x of type uint64: a conversion to int64, so the top
\* bit becomes the sign; widened here to the width of an instant.
DurationOfUint64(d) == <<SignFill(d[1]), d[1], d[2], d[3], d[4]>>

\* time.Duration(x) for x of type int16
DurationOfInt16(o) ==
    <<SignFill(o), SignFill(o), SignFill(o), SignFill(o), o>>

\* t.Add(d)
TimeAdd(t, d) == AddWide(t, d)

\* signed comparison of instants: t.Before(u)
RECURSIVE LexLess(_, _, _)
LexLess(a, b, i) ==
    IF i > 5 THEN FALSE
    ELSE IF a[i] # b[i] THEN a[i] < b[i]
    ELSE LexLess(a, b, i + 1)

Bias(t) == [i \in 1..5 |-> IF i = 1 THEN (t[1] + SignLimb) % LimbBase ELSE t[i]]

Before(t, u) == LexLess(Bias(t), Bias(u), 1)

(* --------------------------- attributes ------------------------------- *)
\* sql.NullInt64 / sql.NullFloat64
Null     == [Valid |-> FALSE, V |-> 0]
Some(v)  == [Valid |-> TRUE, V |-> v]

KV(k, v) == [key |-> k, value |-> v]

\* setMetricIfValueFloat(attributes, key, value)
setMetricIfValueFloat(attributes, key, value) ==
    IF ~value.Valid \/ value.V = 0 THEN attributes
    ELSE Append(attributes, KV(key, value.V))

\* setMetricIfValue(attributes, key, value)
setMetricIfValue(attributes, key, value) ==
    IF ~value.Valid \/ value.V = 0 THEN attributes
    ELSE Append(attributes, KV(key, value.V))

\* The setMetricIfValue / setMetricIfValueFloat calls whose result is
\* assigned back to attributes, in program order: attribute key, the scanned
\* column it reads, and which of the two helpers is called.
MetricSteps == <<
    <<"block.shared.hit",      "shared_blks_hit",       "int">>,
    <<"block.shared.read",     "shared_blks_read",      "int">>,
    <<"block.shared.dirtied",  "shared_blks_dirtied",   "int">>,
    <<"block.shared.written",  "shared_blks_written",   "int">>,
    <<"block.local.hit",       "local_blks_hit",        "int">>,
    <<"block.local.read",      "local_blks_read",       "int">>,
    <<"block.local.dirtied",   "local_blks_dirtied",    "int">>,
    <<"block.local.written",   "local_blks_written",    "int">>,
    <<"block.read_time",       "blk_read_time",         "float">>,
    <<"block.write_time",      "blk_write_time",        "float">>,
    <<"block.temp.read",       "temp_blks_read",        "int">>,
    <<"block.temp.written",    "temp_blks_written",     "int">>,
    <<"block.temp.read_time",  "temp_blk_read_time",    "float">>,
    <<"block.temp.write_time", "temp_blk_write_time",   "float">>,
    <<"wal.records",           "wal_records",           "int">>,
    <<"wal.fpi",               "wal_fpi",               "int">>,
    <<"wal.bytes",             "wal_bytes",             "int">>,
    <<"plan.startup_cost",     "plan_startup_cost",     "float">>,
    <<"plan.total_cost",       "plan_total_cost",       "float">>,
    <<"plan.rows",             "plan_rows",             "float">>,
    <<"plan.width",            "plan_width",            "int">>,
    <<"jit.functions",         "jit_functions",         "int">>,
    <<"jit.generation_time",   "jit_generation_time",   "float">>,
    <<"jit.inlining_time",     "jit_inlining_time",     "float">>,
    <<"jit.optimization_time", "jit_optimization_time", "float">>,
    <<"jit.emission_time",     "jit_emission_time",     "float">> >>

\* the nullable numeric columns the loop scans ("rows" is rowNumber)
NullableColumns == {"rows"} \cup {MetricSteps[i][2] : i \in 1..Len(MetricSteps)}

\* lines 134-165: the assigned-back metric calls from step i on
RECURSIVE ApplyMetricSteps(_, _, _)
ApplyMetricSteps(attributes, m, i) ==
    IF i > Len(MetricSteps) THEN attributes
    ELSE LET st == MetricSteps[i] IN
         ApplyMetricSteps(
            IF st[3] = "float"
              THEN setMetricIfValueFloat(attributes, st[1], m[st[2]])
              ELSE setMetricIfValue(attributes, st[1], m[st[2]]),
            m, i + 1)

SuccessCode == "00000"

\* ErrorAttributes with the test of the error code inverted
ErrorAttributesInverted(attributes, sql_error_code) ==
    IF sql_error_code = SuccessCode
      THEN Append(Append(attributes, KV("error.msg", "Query error")),
                  KV("error.msg", sql_error_code))
      ELSE attributes

\* lines 167-170
ErrorAttributes(attributes, sql_error_code) ==
    IF sql_error_code # SuccessCode
      THEN Append(Append(attributes, KV("error.msg", "Query error")),
                  KV("error.msg", sql_error_code))
      ELSE attributes

\* lines 129-170: the attributes slice handed to trace.WithAttributes
BuildAttributes(r) ==
    LET a0      == <<>>
        \* line 130: the returned slice is not assigned; a0 has capacity 0,
        \* so the append inside cannot touch it
        dropped == setMetricIfValue(a0, "rows", r.m["rows"])
        a1      == Append(a0, KV("pid", r.pid))
        a2      == Append(a1, KV("subxact_count", r.subxact_count))
        a3      == ApplyMetricSteps(a2, r.m, 1)
    IN  ErrorAttributes(a3, r.sql_error_code)

(* ------------------------ identifiers, name, times -------------------- *)
\* lines 172-173
TraceIdBytes(r) == PutUint64(MakeBytes(16), ToUint64(r.traceId))

\* lines 174-175
SpanIdBytes(r) == PutUint64(MakeBytes(8), ToUint64(r.spanId))

\* lines 176-177
ParentIdBytes(r) == PutUint64(MakeBytes(8), ToUint64(r.parentId))

\* line 182
SpanStartNs(r) == TimeAdd(r.span_start, DurationOfInt16(r.span_start_ns))

\* line 203
SpanEndNs(spanStartNs, duration) == TimeAdd(spanStartNs, DurationOfUint64(duration))

\* lines 194-197
SpanName(r) ==
    IF r.deparse_info.Valid
      THEN <<r.span_operation, " ", r.deparse_info.V>>
      ELSE <<r.span_operation>>

\* lines 189-191: psc := SpanContext{}.WithTraceID(..).WithSpanID(..)
ParentSpanContext(r) ==
    [traceID |-> TraceIdBytes(r), spanID |-> ParentIdBytes(r)]

\* trace.TraceID.IsValid: not all zero
TraceIDIsValid(t) == \E i \in 1..Len(t) : t[i] # 0

\* FixedIdGenerator.NewSpanID
NewSpanID(traceID) == fixedSpanID

\* FixedIdGenerator.NewIDs
NewIDs == <<fixedTraceID, fixedSpanID>>

(* ------------------------------ inputs -------------------------------- *)
NullString == [Valid |-> FALSE, V |-> ""]

\* instants (nanoseconds since the Unix epoch, five limbs): two moments in
\* November 2023, one second apart
T0 == <<0, 6035, 17000, 4660, 22136>>
T1 == <<0, 6035, 17000, 19919, 10168>>

MinusOne16 == LimbMax                       \* int16(-1)

AllNull == [c \in NullableColumns |-> Null]
AllZero == [c \in NullableColumns |-> Some(0)]
AllFive == [c \in NullableColumns |-> Some(5)]
WalOnly == [c \in NullableColumns |->
              IF c = "wal_records" THEN Some(5)
              ELSE IF c = "wal_fpi" THEN Some(0) ELSE Null]
RowsOnly == [c \in NullableColumns |-> IF c = "rows" THEN Some(5) ELSE Null]

Rec(t, p, s, op, dep, st, off, dur, pid, sub, code, m) ==
    [traceId |-> t, parentId |-> p, spanId |-> s,
     span_operation |-> op, deparse_info |-> dep,
     span_start |-> st, span_start_ns |-> off, duration |-> dur,
     pid |-> pid, subxact_count |-> sub, sql_error_code |-> code, m |-> m]

\* Rows used for whole runs: a root-like record, a child of it, a child that
\* failed with an SQL error, a record whose identifiers are 0 / all ones, and
\* a record with a duration of 2^63 ns.
SampleRecords ==
    { Rec(U64Small(1), U64Zero, U64Small(10), "Planner", NullString,
          T0, 0, U64Small(100), 4242, 0, SuccessCode, AllNull),
      Rec(U64Small(1), U64Small(10), U64Small(11), "Executor",
          [Valid |-> TRUE, V |-> "select 1"],
          T0, 3, U64Small(40), 4242, 2, SuccessCode, AllFive),
      Rec(U64Small(1), U64Small(10), U64Small(12), "Executor", NullString,
          T1, 0, U64Small(30), 0, 0, "42P01", WalOnly),
      Rec(U64Zero, U64Zero, U64Max, "Parse", NullString,
          T1, MinusOne16, U64Zero, 4242, 0, SuccessCode, AllZero),
      Rec(U64Max, U64Max, U64Small(13), "Executor", NullString,
          T1, 0, U64Top, 4242, 0, SuccessCode, RowsOnly) }

\* the query orders by span_start
SortedByStart(rs) ==
    \A i \in 1..(Len(rs) - 1) : ~Before(rs[i + 1].span_start, rs[i].span_start)

RECURSIVE SeqsUpTo(_, _)
SeqsUpTo(S, n) ==
    IF n = 0 THEN {<<>>}
    ELSE LET shorter == SeqsUpTo(S, n - 1) IN
         shorter \cup {Append(q, x) : q \in {t \in shorter : Len(t) = n - 1}, x \in S}

ResultSets == {rs \in SeqsUpTo(SampleRecords, MaxRows) : SortedByStart(rs)}

\* Rows used to exercise the mapping of one record over a product of field
\* values.
RecordDomain ==
    { Rec(t, p, s, "Executor", dep, st, off, dur, pid, sub, code, m) :
        t \in {U64Zero, U64Small(1), U64Max},
        p \in {U64Zero, U64Small(10)},
        s \in {U64Small(10), U64Max},
        dep \in {NullString, [Valid |-> TRUE, V |-> "select 1"]},
        st \in {T0},
        off \in {0, 3, MinusOne16},
        dur \in {U64Zero, U64Small(100), U64(SignLimb - 1, LimbMax, LimbMax, LimbMax), U64Top},
        pid \in {0, 4242},
        sub \in {0, 2},
        code \in {SuccessCode, "42P01"},
        m \in {AllNull, AllZero, AllFive, WalOnly, RowsOnly} }

(* ------------------------------- state -------------------------------- *)
EmptySpanContext == [traceID |-> MakeBytes(16), spanID |-> MakeBytes(8)]

EndCalls   == {i \in 1..Len(calls) : calls[i].op = "end"}
EndedCount == Cardinality(EndCalls)

\* main() after line 91: the signal context and the zero-valued generator exist
Init ==
    /\ pc = "init"
    /\ ctxDone = FALSE
    /\ pending = <<>>
    /\ consumed = <<>>
    /\ cur = <<>>
    /\ built = <<>>
    /\ ctxPsc = EmptySpanContext
    /\ fixedSpanID = MakeBytes(8)
    /\ fixedTraceID = MakeBytes(16)
    /\ spans = <<>>
    /\ calls = <<>>
    /\ exported = 0
    /\ failure = "none"
    /\ exitStatus = -1
    /\ doneLogged = FALSE
    /\ shutdownCalled = FALSE

\* log.Fatal / log.Fatalf / fatalIf with an error: os.Exit(1), deferred
\* functions do not run; failure keeps the first thing that went wrong
Fatal(what) ==
    /\ pc' = "exited"
    /\ exitStatus' = 1
    /\ failure' = IF failure = "none" THEN what ELSE failure

loopVars == <<pending, consumed, cur, built, ctxPsc, fixedSpanID, spans, calls>>

(* ------------------------------ main() -------------------------------- *)
\* initProvider returns a shutdown function (lines 43-83, 92-98)
InitProviderOk ==
    /\ pc = "init"
    /\ pc' = "connect"
    /\ UNCHANGED <<ctxDone, loopVars, fixedTraceID, exported, failure,
                   exitStatus, doneLogged, shutdownCalled>>

\* resource creation, the collector connection or the exporter failed
InitProviderFail ==
    /\ pc = "init"
    /\ Fatal("provider")
    /\ UNCHANGED <<ctxDone, loopVars, fixedTraceID, exported, doneLogged,
                   shutdownCalled>>

\* pgx.Connect(ctx, ...) succeeded (lines 100-102); needs a live context
ConnectOk ==
    /\ pc = "connect"
    /\ ~ctxDone
    /\ pc' = "query"
    /\ UNCHANGED <<ctxDone, loopVars, fixedTraceID, exported, failure,
                   exitStatus, doneLogged, shutdownCalled>>

ConnectFail ==
    /\ pc = "connect"
    /\ Fatal("connect")
    /\ UNCHANGED <<ctxDone, loopVars, fixedTraceID, exported, doneLogged,
                   shutdownCalled>>

(* ---------------------------- fetchSpans() ---------------------------- *)
\* conn.Query(ctx, query) returned rows (lines 66-67)
QueryOk ==
    /\ pc = "query"
    /\ ~ctxDone
    /\ \E rs \in ResultSets : pending' = rs
    /\ pc' = "next"
    /\ UNCHANGED <<ctxDone, consumed, cur, built, ctxPsc, fixedSpanID,
                   fixedTraceID, spans, calls, exported, failure, exitStatus,
                   doneLogged, shutdownCalled>>

QueryFail ==
    /\ pc = "query"
    /\ Fatal("query")
    /\ UNCHANGED <<ctxDone, loopVars, fixedTraceID, exported, doneLogged,
                   shutdownCalled>>

\* rows.Next() returned true (line 69)
RowsNextRow ==
    /\ pc = "next"
    /\ pending # <<>>
    /\ pc' = "scan"
    /\ UNCHANGED <<ctxDone, loopVars, fixedTraceID, exported, failure,
                   exitStatus, doneLogged, shutdownCalled>>

\* rows.Next() returned false because the result set is exhausted
RowsNextEnd ==
    /\ pc = "next"
    /\ pending = <<>>
    /\ pc' = "done"
    /\ UNCHANGED <<ctxDone, loopVars, fixedTraceID, exported, failure,
                   exitStatus, doneLogged, shutdownCalled>>

\* rows.Next() returned false because reading the stream failed (server or
\* network); the error is left in rows.Err(), which fetchSpans never reads,
\* so the loop just ends
RowsNextErr ==
    /\ pc = "next"
    /\ pending # <<>>
    /\ failure' = "stream"
    /\ pc' = "done"
    /\ UNCHANGED <<ctxDone, loopVars, fixedTraceID, exported, exitStatus,
                   doneLogged, shutdownCalled>>

\* rows.Next() returned false because ctx, which conn.Query was given
\* (line 66), is cancelled: the connection's context watcher aborts the read
RowsNextCancelled ==
    /\ pc = "next"
    /\ ctxDone
    /\ pending # <<>>
    /\ failure' = "cancelled"
    /\ pc' = "done"
    /\ UNCHANGED <<ctxDone, loopVars, fixedTraceID, exported, exitStatus,
                   doneLogged, shutdownCalled>>

\* rows.Scan(...) succeeded (lines 70-123)
ScanOk ==
    /\ pc = "scan"
    /\ cur' = <<Head(pending)>>
    /\ pending' = Tail(pending)
    /\ consumed' = Append(consumed, Head(pending))
    /\ built' = <<>>
    /\ pc' = "map"
    /\ UNCHANGED <<ctxDone, ctxPsc, fixedSpanID, fixedTraceID, spans, calls,
                   exported, failure, exitStatus, doneLogged, shutdownCalled>>

\* rows.Scan(...) returned an error (lines 120-122)
ScanFail ==
    /\ pc = "scan"
    /\ Fatal("decode")
    /\ UNCHANGED <<ctxDone, loopVars, fixedTraceID, exported, doneLogged,
                   shutdownCalled>>

\* lines 125-197: derive the attributes, identifier bytes, start time, parent
\* context and name of the span from the scanned record
MapRecord ==
    /\ pc = "map"
    /\ LET r == cur[1] IN
       /\ built' = << [attributes  |-> BuildAttributes(r),
                       spanIdBytes |-> SpanIdBytes(r),
                       spanStartNs |-> SpanStartNs(r),
                       spanName    |-> SpanName(r)] >>
       /\ ctxPsc' = ParentSpanContext(r)
    /\ pc' = "setid"
    /\ UNCHANGED <<ctxDone, pending, consumed, cur, fixedSpanID, fixedTraceID,
                   spans, calls, exported, failure, exitStatus, doneLogged,
                   shutdownCalled>>

\* SetFixedSpanID that leaves the generator slot as it was
SetFixedSpanIDStale ==
    /\ pc = "setid"
    /\ fixedSpanID' = fixedSpanID
    /\ pc' = "start"
    /\ UNCHANGED <<ctxDone, pending, consumed, cur, built, ctxPsc,
                   fixedTraceID, spans, calls, exported, failure, exitStatus,
                   doneLogged, shutdownCalled>>

\* line 200
SetFixedSpanID ==
    /\ pc = "setid"
    /\ fixedSpanID' = built[1].spanIdBytes
    /\ pc' = "start"
    /\ UNCHANGED <<ctxDone, pending, consumed, cur, built, ctxPsc,
                   fixedTraceID, spans, calls, exported, failure, exitStatus,
                   doneLogged, shutdownCalled>>

\* the identifiers the SDK's span-start gives a span whose parent span
\* context is psc: the parent's trace ID and a NewSpanID when that trace ID
\* is valid, otherwise both from NewIDs
StartIDs(psc) ==
    IF TraceIDIsValid(psc.traceID)
      THEN [traceID |-> psc.traceID, spanID |-> NewSpanID(psc.traceID),
            via |-> "NewSpanID"]
      ELSE [traceID |-> NewIDs[1], spanID |-> NewIDs[2], via |-> "NewIDs"]

\* line 201: tracer.Start(ctx, spanName, startOptions...) under the
\* AlwaysSample sampler: a recording span with the given timestamp (no start
\* time of the input domain is the zero time, which the SDK would replace by
\* the current time), the given attributes and the parent span context
\* found in ctx
TracerStart ==
    /\ pc = "start"
    /\ LET ids == StartIDs(ctxPsc) IN
       spans' = Append(spans,
                  [traceID    |-> ids.traceID,
                   spanID     |-> ids.spanID,
                   via        |-> ids.via,
                   parent     |-> ctxPsc,
                   name       |-> built[1].spanName,
                   kind       |-> "server",
                   attributes |-> built[1].attributes,
                   startTime  |-> built[1].spanStartNs,
                   endTime    |-> <<>>,
                   rec        |-> Len(consumed)])
    /\ calls' = Append(calls, [op |-> "start", rec |-> Len(consumed)])
    /\ pc' = "end"
    /\ UNCHANGED <<ctxDone, pending, consumed, cur, built, ctxPsc,
                   fixedSpanID, fixedTraceID, exported, failure, exitStatus,
                   doneLogged, shutdownCalled>>

\* SpanEnd that goes on to the next row without calling span.End
SpanEndSkipped ==
    /\ pc = "end"
    /\ pc' = "next"
    /\ UNCHANGED <<ctxDone, loopVars, fixedTraceID, exported, failure,
                   exitStatus, doneLogged, shutdownCalled>>

\* lines 203-207: span.End(trace.WithTimestamp(spanEndNs)); the ended span
\* is handed to the batch span processor
SpanEnd ==
    /\ pc = "end"
    /\ spans' = [spans EXCEPT ![Len(spans)].endTime =
                    <<SpanEndNs(built[1].spanStartNs, cur[1].duration)>>]
    /\ calls' = Append(calls, [op |-> "end", rec |-> spans[Len(spans)].rec])
    /\ pc' = "next"
    /\ UNCHANGED <<ctxDone, pending, consumed, cur, built, ctxPsc,
                   fixedSpanID, fixedTraceID, exported, failure, exitStatus,
                   doneLogged, shutdownCalled>>

(* ------------------------- leaving main() ----------------------------- *)
\* line 106 and the deferred calls: log "Done!", conn.Close(ctx), then the
\* deferred shutdown(ctx) is entered
MainReturn ==
    /\ pc = "done"
    /\ doneLogged' = TRUE
    /\ shutdownCalled' = TRUE
    /\ pc' = "shutdown"
    /\ UNCHANGED <<ctxDone, loopVars, fixedTraceID, exported, failure,
                   exitStatus>>

\* ShutdownDrained that returns without exporting what is still held
ShutdownDrainedNoFlush ==
    /\ pc = "shutdown"
    /\ pc' = "exited"
    /\ exitStatus' = 0
    /\ UNCHANGED <<ctxDone, loopVars, fixedTraceID, exported, failure,
                   doneLogged, shutdownCalled>>

\* tracerProvider.Shutdown(ctx) returned nil: the batch span processor has
\* exported everything it held; main returns and the process exits with 0
ShutdownDrained ==
    /\ pc = "shutdown"
    /\ exported' = EndedCount
    /\ pc' = "exited"
    /\ exitStatus' = 0
    /\ UNCHANGED <<ctxDone, loopVars, fixedTraceID, failure, doneLogged,
                   shutdownCalled>>

\* tracerProvider.Shutdown(ctx) returned ctx.Err() because ctx is cancelled;
\* lines 95-97 then call log.Fatal
ShutdownCancelled ==
    /\ pc = "shutdown"
    /\ ctxDone
    /\ Fatal("shutdown")
    /\ UNCHANGED <<ctxDone, loopVars, fixedTraceID, exported, doneLogged,
                   shutdownCalled>>

(* ---------------------------- environment ----------------------------- *)
\* os.Interrupt is delivered: signal.NotifyContext cancels ctx (line 88)
Interrupt ==
    /\ pc # "exited"
    /\ ~ctxDone
    /\ ctxDone' = TRUE
    /\ UNCHANGED <<pc, loopVars, fixedTraceID, exported, failure, exitStatus,
                   doneLogged, shutdownCalled>>

\* the batch span processor exports some of the ended spans it holds
\* (line 73), oldest first
Export ==
    /\ pc # "exited"
    /\ exported < EndedCount
    /\ \E n \in (exported + 1)..EndedCount : exported' = n
    /\ UNCHANGED <<pc, ctxDone, loopVars, fixedTraceID, failure, exitStatus,
                   doneLogged, shutdownCalled>>

Next ==
    \/ InitProviderOk \/ InitProviderFail
    \/ ConnectOk \/ ConnectFail
    \/ QueryOk \/ QueryFail
    \/ RowsNextRow \/ RowsNextEnd \/ RowsNextErr \/ RowsNextCancelled
    \/ ScanOk \/ ScanFail
    \/ MapRecord \/ SetFixedSpanID \/ TracerStart \/ SpanEnd
    \/ MainReturn \/ ShutdownDrained \/ ShutdownCancelled
    \/ Interrupt \/ Export

Spec == Init /\ [][Next]_vars

(* --------------- the mapping of one record, over a product ------------ *)
\* fetchSpans entered with a one-row result set drawn from RecordDomain
InitMap ==
    /\ pc = "next"
    /\ ctxDone = FALSE
    /\ pending \in {<<r>> : r \in RecordDomain}
    /\ consumed = <<>>
    /\ cur = <<>>
    /\ built = <<>>
    /\ ctxPsc = EmptySpanContext
    /\ fixedSpanID = MakeBytes(8)
    /\ fixedTraceID = MakeBytes(16)
    /\ spans = <<>>
    /\ calls = <<>>
    /\ exported = 0
    /\ failure = "none"
    /\ exitStatus = -1
    /\ doneLogged = FALSE
    /\ shutdownCalled = FALSE

NextMap ==
    \/ RowsNextRow \/ RowsNextEnd
    \/ ScanOk
    \/ MapRecord \/ SetFixedSpanID \/ TracerStart \/ SpanEnd

SpecMap == InitMap /\ [][NextMap]_vars

TypeOK ==
    /\ pc \in {"init", "connect", "query", "next", "scan", "map", "setid",
               "start", "end", "done", "shutdown", "exited"}
    /\ ctxDone \in BOOLEAN
    /\ Len(consumed) <= MaxRows
    /\ exported \in 0..EndedCount
    /\ exitStatus \in {-1, 0, 1}

(* ------------------------------ claims -------------------------------- *)
\* the record a span was created for
RecordOf(s) == consumed[s.rec]

SpanIdx == 1..Len(spans)

Zeros8 == MakeBytes(8)

\* binary.BigEndian.Uint64(b): reads b[0..7] as a big-endian value.
Uint64(b) == [k \in 1..4 |-> b[2 * k - 1] * ByteBase + b[2 * k]]

\* The low-order / high-order 8 bytes of a 16-byte identifier.
Low8(b)  == [i \in 1..8 |-> b[i + 8]]
High8(b) == [i \in 1..8 |-> b[i]]

\* the value of an unsigned 64-bit count, at the width of an instant
ZeroExtend(d) == <<0, d[1], d[2], d[3], d[4]>>

HasKey(attributes, k) == \E j \in 1..Len(attributes) : attributes[j].key = k

HasPair(attributes, k, v) ==
    \E j \in 1..Len(attributes) :
        attributes[j].key = k /\ attributes[j].value = v

\* C1: every emitted span carries trace ID = its record's traceId widened
\* into the low-order bytes, span ID = widened spanId and parent span ID =
\* widened parentId, and its trace ID never comes from the generator (NewIDs).
C1_IdsAreWidenedRecordIds ==
    \A i \in SpanIdx :
        LET s == spans[i]
            r == RecordOf(s)
        IN  /\ High8(s.traceID) = Zeros8
            /\ Uint64(Low8(s.traceID)) = ToUint64(r.traceId)
            /\ Uint64(s.spanID) = ToUint64(r.spanId)
            /\ Uint64(s.parent.spanID) = ToUint64(r.parentId)
            /\ s.via # "NewIDs"

\* C2: widening puts the 64-bit value in the low-order bytes: the 16-byte
\* trace ID has 8 zero high-order bytes and reading back its low 64 bits
\* gives traceId; reading back a span ID / parent span ID gives spanId /
\* parentId.
C2_WideningLowOrderRoundTrip ==
    pc = "setid" =>
        LET r == cur[1]
            t == ctxPsc.traceID
        IN  /\ Len(t) = 16
            /\ \A i \in 1..8 : t[i] = 0
            /\ Uint64(Low8(t)) = ToUint64(r.traceId)
            /\ Uint64(built[1].spanIdBytes) = ToUint64(r.spanId)
            /\ Uint64(ctxPsc.spanID) = ToUint64(r.parentId)

\* the metrics of the data model: attribute key and the record's value
DataModelMetric(r) ==
    [k \in {"rows", "pid", "subxact_count"}
           \cup {MetricSteps[i][1] : i \in 1..Len(MetricSteps)} |->
        IF k = "rows" THEN r.m["rows"]
        ELSE IF k = "pid" THEN Some(r.pid)
        ELSE IF k = "subxact_count" THEN Some(r.subxact_count)
        ELSE LET i == CHOOSE j \in 1..Len(MetricSteps) : MetricSteps[j][1] = k
             IN  r.m[MetricSteps[i][2]]]

\* C3: sparsity law: a metric's attribute key is among the attributes given
\* to span-start exactly when the metric is non-null and non-zero, and then
\* its value is the metric's value.
C3_SparsityLaw ==
    \A i \in SpanIdx :
        LET s  == spans[i]
            dm == DataModelMetric(RecordOf(s))
        IN  \A k \in DOMAIN dm :
              /\ HasKey(s.attributes, k) <=> (dm[k].Valid /\ dm[k].V # 0)
              /\ \A j \in 1..Len(s.attributes) :
                    s.attributes[j].key = k => s.attributes[j].value = dm[k].V

\* C4: a span starts at spanStart + spanStartNanosOffset and ends at that
\* start plus durationNanos (an unsigned count), never before its start.
C4_EndIsStartPlusDuration ==
    \A i \in SpanIdx :
        LET s == spans[i]
            r == RecordOf(s)
        IN  /\ s.startTime = AddWide(r.span_start, DurationOfInt16(r.span_start_ns))
            /\ s.endTime # <<>> =>
                 /\ s.endTime[1] = AddWide(s.startTime, ZeroExtend(r.duration))
                 /\ ~Before(s.endTime[1], s.startTime)

AllEnded == \A i \in SpanIdx : spans[i].endTime # <<>>

\* C5: a process that left the row loop normally has entered the deferred
\* shutdown before exiting, and when it exits with status 0 every span
\* emitted in the run has been ended and transmitted.
C5_FlushBeforeCleanExit ==
    /\ (pc = "exited" /\ doneLogged) => shutdownCalled
    /\ (pc = "exited" /\ exitStatus = 0) =>
          /\ shutdownCalled
          /\ AllEnded
          /\ exported = Len(spans)

C5_Witness ==
    /\ pc = "exited"
    /\ exitStatus = 0
    /\ Len(spans) >= 2
    /\ exported = Len(spans)

\* C6: after an interrupt the outstanding query still runs to its end and
\* the exporter flush completes, so a process that was interrupted and got
\* past the query exits with every emitted span transmitted.
C6_InterruptStillFlushes ==
    (/\ pc = "exited"
     /\ ctxDone
     /\ failure \notin {"provider", "connect", "query", "decode", "stream"}) =>
        /\ pending = <<>>
        /\ exported = Len(spans)

FatalKinds == {"provider", "connect", "query", "stream", "cancelled", "decode"}

\* C7: every failure of provider setup, connection, query (issue or
\* streaming) or row decode ends the process with a non-zero status, and
\* "Done!" / exit 0 is reached only after the whole result set was drained
\* without such a failure.
C7_FailuresAreFatal ==
    /\ (pc = "exited" /\ failure \in FatalKinds) => exitStatus # 0
    /\ (doneLogged \/ exitStatus = 0) =>
          (failure \notin FatalKinds /\ pending = <<>>)

\* C8: a span whose record has a non-success SQL error code carries the
\* error attribute pair and is started and ended like any other while the
\* loop goes on; a span whose record has code "00000" has no error attribute.
C8_ErrorAttribute ==
    \A i \in SpanIdx :
        LET s == spans[i]
            r == RecordOf(s)
        IN  /\ HasKey(s.attributes, "error.msg") <=> (r.sql_error_code # "00000")
            /\ r.sql_error_code # "00000" =>
                 /\ HasPair(s.attributes, "error.msg", r.sql_error_code)
                 /\ HasPair(s.attributes, "error.msg", "Query error")
                 /\ (i < Len(spans) \/ pc # "end") => s.endTime # <<>>

C8_Witness ==
    /\ Len(spans) = 2
    /\ RecordOf(spans[1]).sql_error_code # "00000"
    /\ RecordOf(spans[2]).sql_error_code = "00000"
    /\ HasKey(spans[1].attributes, "error.msg")
    /\ spans[1].endTime # <<>>

\* C9: records are processed one at a time and one-to-one: the calls issued
\* are start(1), end(1), start(2), end(2), ... in query order, the span of a
\* record is started and ended before the next row is fetched, and when the
\* loop is left every consumed record has exactly one started and ended span.
C9_SequentialOneToOne ==
    /\ \A j \in 1..Len(calls) :
          /\ calls[j].rec = (j + 1) \div 2
          /\ calls[j].op = IF j % 2 = 1 THEN "start" ELSE "end"
    /\ \A i \in SpanIdx :
          /\ spans[i].rec = i
          /\ spans[i].name = SpanName(consumed[i])
    /\ pc \in {"next", "scan", "done", "shutdown"} =>
          /\ Len(calls) = 2 * Len(consumed)
          /\ Len(spans) = Len(consumed)
          /\ AllEnded
    /\ (pc = "exited" /\ doneLogged) =>
          /\ Len(calls) = 2 * Len(consumed)
          /\ Len(spans) = Len(consumed)
          /\ AllEnded

C9_Witness ==
    /\ pc = "done"
    /\ pending = <<>>
    /\ Len(consumed) >= 2
    /\ Len(calls) = 2 * Len(consumed)
    /\ consumed[1] # consumed[2]

\* C10: when span-start runs, the generator slot holds the widened spanId of
\* the record being processed and the active parent context is the one made
\* from that record, so every span got its own record's span ID and parent
\* context, never those of an earlier record.
C10_Handshake ==
    /\ pc = "start" =>
          /\ Uint64(fixedSpanID) = ToUint64(cur[1].spanId)
          /\ ctxPsc = ParentSpanContext(cur[1])
    /\ \A i \in SpanIdx :
          /\ Uint64(spans[i].spanID) = ToUint64(consumed[i].spanId)
          /\ spans[i].parent = ParentSpanContext(consumed[i])

C10_Witness ==
    /\ Len(spans) = 2
    /\ spans[1].spanID # spans[2].spanID
    /\ spans[1].parent # spans[2].parent
    /\ spans[2].via = "NewIDs"

====
